---- MODULE Spec2Model ----
(***************************************************************************)
(* A model of the harmful_meme content-moderation pipeline:                *)
(*   feature_factory.py  FeatureFactory  (VLM call, keywords, scores, tags) *)
(*   feature_store.py    FeatureStore    (offline CSV log, online dict)     *)
(*   serving_engine.py   ServingEngine   (train_model, serve_prediction)    *)
(*   main.py             run_pipeline                                       *)
(* Real numbers (scores, thresholds, probabilities) are fixed-point        *)
(* integers in units of 0.00001, so 1.0 is One.                            *)
(***************************************************************************)
EXTENDS Integers, Sequences, FiniteSets, TLC

VARIABLES
    offline_file,       \* config.OFFLINE_FILE on disk: NoFile or the sequence of its lines
    online_store,       \* FeatureStore.online_store: a dict keyed by str(post_id)
    model,              \* ServingEngine.self.model: "none" | "unfitted" | "fitted"
    ret,                \* the outcome of the last call (its arguments, return value or exception)
    written,            \* history: every batch handed to write_offline since the last reset
    upserts,            \* history: every row handed to write_online, in order
    policy_thresholds,  \* FeatureFactory.self.policy_thresholds
    pc,                 \* run_pipeline's position
    train_features,     \* run_pipeline's local train_features
    test_features,      \* run_pipeline's local test_features
    train_df,           \* run_pipeline's local train_df
    test_df,            \* run_pipeline's local test_df
    served,             \* run_pipeline: the decisions printed by the serving loop
    last_fit            \* history: how the last fit train_model attempted ended

vars == <<offline_file, online_store, model, ret, written, upserts,
          policy_thresholds, pc, train_df, train_features, test_df, test_features,
          served, last_fit>>

\* ------------------------------------------------------------------ numbers

\* 1.0 in fixed-point units (feature_factory.py:225, min(1.0, ...)).
One == 100000

\* Bounds of the model.
MaxBatch == 2       \* rows in one data frame
MaxLog == 2         \* rows the offline log holds when the engine trains
MaxWritten == 3     \* rows, and batches, written to the offline log between two resets
MaxUpserts == 3     \* rows handed to write_online
MaxIngest == 2      \* posts ingest_data returns (the code's limit is 10)

\* dict.get(key, default)
Get(d, k, default) == IF k \in DOMAIN d THEN d[k] ELSE default

\* {**f, **g}: later keys win
Merge(f, g) == [k \in DOMAIN f \cup DOMAIN g |-> IF k \in DOMAIN g THEN g[k] ELSE f[k]]

Min(a, b) == IF a <= b THEN a ELSE b

Range(s) == {s[j] : j \in 1..Len(s)}

\* All sequences over S of length lo..hi.
SeqsOf(S, lo, hi) == UNION {[1..n -> S] : n \in lo..hi}

\* ------------------------------------------------------------------ config.py

Categories == {"Harmful_Content", "Political_Content", "Spam", "Copyright_Infringement"}

POLICY_THRESHOLDS ==
    [Harmful_Content |-> 80000, Political_Content |-> 70000,
     Spam |-> 90000, Copyright_Infringement |-> 85000]

\* ------------------------------------------------------------------ feature_factory.py

\* f"Is_{category}"
TagName(category) ==
    CASE category = "Harmful_Content" -> "Is_Harmful_Content"
      [] category = "Political_Content" -> "Is_Political_Content"
      [] category = "Spam" -> "Is_Spam"
      [] category = "Copyright_Infringement" -> "Is_Copyright_Infringement"
      [] category = "Misinformation" -> "Is_Misinformation"

\* The category a tag column names (the inverse of TagName).
CategoryOf(tag, cats) == CHOOSE c \in cats : TagName(c) = tag

triggers == {"hate", "kill", "attack", "stupid"}

\* The values random.random() returns, in [0, 1): a sample that holds both ends.
Random01 == {0, 50000, 60000, 75000, 99990}

\* The values random.uniform(-0.1, 0.1) returns.
UniformTenth == {-10000, 0, 10000}

\* The five draws of one classify_to_scores call, in call order.
Draws == [base : Random01, jitter : UniformTenth, political : Random01,
          spam : Random01, copyright : Random01]

\* FeatureFactory.classify_to_scores: keywords is a list, d the random draws.
classify_to_scores(keywords, d) ==
    LET base0 == (d.base * 5) \div 10
        base_score == IF \E t \in triggers : t \in Range(keywords)
                      THEN base0 + 40000 ELSE base0
    IN  [Harmful_Content |-> Min(One, base_score + d.jitter),
         Political_Content |-> d.political,
         Spam |-> (d.spam * 3) \div 10,
         Copyright_Infringement |-> d.copyright \div 10]

\* apply_policy comparing with > instead of >= (a mutant).
apply_policy_strict(thresholds, scores) ==
    [tag \in {TagName(c) : c \in DOMAIN scores} |->
        LET category == CategoryOf(tag, DOMAIN scores)
        IN  IF scores[category] > Get(thresholds, category, 50000) THEN 1 ELSE 0]

\* FeatureFactory.apply_policy, reading self.policy_thresholds.
apply_policy(thresholds, scores) ==
    [tag \in {TagName(c) : c \in DOMAIN scores} |->
        LET category == CategoryOf(tag, DOMAIN scores)
            threshold == Get(thresholds, category, 50000)
        IN  IF scores[category] >= threshold THEN 1 ELSE 0]

\* ---- the VLM call

\* The flag columns of a Structured Analysis and their reason columns.
RiskColumns ==
    {<<"is_sarcastic", "is_sarcastic_reason">>, <<"is_harmful", "is_harmful_reason">>,
     <<"is_offensive", "is_offensive_reason">>, <<"is_violent", "is_violent_reason">>,
     <<"is_sexual", "is_sexual_reason">>, <<"is_explicit", "is_explicit_reason">>,
     <<"is_terrorist", "is_terrorist_reason">>, <<"is_extremist", "is_extremist_reason">>,
     <<"is_child_exploitation", "is_child_exploitation_reason">>,
     <<"is_hate_speech", "is_hate_speech_reason">>, <<"is_spam", "is_spam_reason">>,
     <<"is_racist_or_racial_slur", "is_racist_or_racial_slur_reason">>}

FlagKeys == {c[1] : c \in RiskColumns}
ReasonKeys == {c[2] : c \in RiskColumns}
TextKeys == {"visual_summary", "ocr_text"}
VlmKeys == TextKeys \cup FlagKeys \cup ReasonKeys

\* What one HTTP exchange with the VLM can come to (requests.post .. json.loads).
\* "ok" carries the dict json.loads returned.
ParsedPayloads ==
    { [visual_summary |-> "a cat", ocr_text |-> "kill", is_harmful |-> TRUE,
       is_harmful_reason |-> "threat", is_spam |-> FALSE],
      [ocr_text |-> "hate"],
      [is_sarcastic |-> TRUE, is_sarcastic_reason |-> "irony"] }

VlmOutcomes ==
    {[kind |-> k] : k \in {"unreadable_image", "network_error", "http_error",
                           "bad_envelope", "malformed_payload", "non_dict_payload"}}
    \cup {[kind |-> "ok", parsed |-> p] : p \in ParsedPayloads}

VlmFailed(o) == o.kind # "ok"

Raise(exc) == [raised |-> TRUE, exc |-> exc]
Return(v) == [raised |-> FALSE, value |-> v]

\* The default parsed.get(key, default) uses for each key.
VlmDefault(k) ==
    IF k = "visual_summary" THEN "Summary not found"
    ELSE IF k = "ocr_text" THEN ""
    ELSE IF k \in FlagKeys THEN FALSE ELSE ""

\* FeatureFactory._call_vlm (generate_caption is a plain call of it).
call_vlm(o) ==
    CASE o.kind = "unreadable_image" -> Raise("OSError")               \* _encode_image
      [] o.kind = "network_error" -> Raise("RequestException")          \* requests.post
      [] o.kind = "http_error" -> Raise("HTTPError")                    \* raise_for_status
      [] o.kind = "bad_envelope" -> Raise("ValueError")                 \* response.json()
      [] o.kind = "non_dict_payload" -> Raise("AttributeError")         \* parsed.get
         \* json.JSONDecodeError is caught, and the handler reads response_text,
         \* a name bound nowhere: the handler itself raises
      [] o.kind = "malformed_payload" -> Raise("NameError")
      [] o.kind = "ok" -> Return([k \in VlmKeys |-> Get(o.parsed, k, VlmDefault(k))])

\* The dict process_batch substitutes when generate_caption raises.
ErrorSentinel == [k \in VlmKeys |-> IF k \in FlagKeys THEN FALSE ELSE "ERROR"]

\* ---- keywords

\* str.split() of the texts that occur.
Split(text) ==
    CASE text = "" -> <<>>
      [] text = "hate kill" -> <<"hate", "kill">>
      [] text = "you are stupid" -> <<"you", "are", "stupid">>
      [] text = "ERROR" -> <<"ERROR">>
      [] text = "Summary not found" -> <<"Summary", "not", "found">>
      [] text = "a cat" -> <<"a", "cat">>
      [] OTHER -> <<text>>

\* str.lower() of the words that occur.
Lower(w) ==
    CASE w = "Post" -> "post"
      [] w = "Text:" -> "text:"
      [] w = "Image" -> "image"
      [] w = "ERROR" -> "error"
      [] w = "ERROR." -> "error."
      [] w = "Summary" -> "summary"
      [] OTHER -> w

\* The words of f"{text}." : the full stop joins the last word, or stands alone.
WithStop(words) ==
    IF words = <<>> THEN <<".">>
    ELSE [j \in 1..Len(words) |-> IF j = Len(words) THEN words[j] \o "." ELSE words[j]]

\* list(set(...)) in some order: the order is the hash order, here the one CHOOSE gives.
RECURSIVE ListOf(_)
ListOf(S) == IF S = {} THEN <<>>
             ELSE LET x == CHOOSE y \in S : TRUE IN <<x>> \o ListOf(S \ {x})

\* What the text-model call can come to: the reply's comma-separated pieces, or a failure.
TextOutcomes ==
    {[kind |-> "error"], [kind |-> "ok", pieces |-> <<"attack", "meme">>]}

\* FeatureFactory.summarize_text
summarize_text(post_text, vlm_output, t) ==
    LET summary == Get(vlm_output, "visual_summary", "")
        ocr_text == Get(vlm_output, "ocr_text", "")
        combined_context == <<"Post", "Text:">> \o WithStop(Split(post_text))
                            \o <<"Image", "shows:">> \o WithStop(Split(summary))
                            \o <<"Image", "text", "says:">> \o Split(ocr_text)
    IN  IF t.kind = "ok" THEN t.pieces
        ELSE ListOf({Lower(w) : w \in {x \in Range(combined_context) : Len(x) > 3}})

\* ---- process_batch

\* The rows of the ingested frame (ingest_data): id, text, and an image that exists.
\* An id is a JSON number or a JSON string; "int:1" is the number 1, "str:1" the string "1".
Posts ==
    { [id |-> "int:1", text |-> ""],
      [id |-> "int:2", text |-> "hate kill"],
      [id |-> "str:1", text |-> "you are stupid"] }

PostIds == {p.id : p \in Posts}

\* The random draws the batch and pipeline runs use (a sample of Draws).
BatchDraws ==
    { [base |-> 0, jitter |-> -10000, political |-> 0, spam |-> 0, copyright |-> 0],
      [base |-> 75000, jitter |-> 10000, political |-> 75000, spam |-> 99990, copyright |-> 99990] }

\* What happens to one post: the VLM exchange, the text-model exchange, the draws.
Choices == [vlm : VlmOutcomes, text : TextOutcomes, draws : BatchDraws]

\* `except Exception` in process_batch: every exception _call_vlm raises is one.
handler_catches_requests_only(exc) == exc \in {"RequestException", "HTTPError"}

handler_catches(exc) == TRUE

\* One iteration of process_batch's loop: the row appended to results, or the
\* exception that leaves the loop.
process_row(thresholds, row, c) ==
    LET post_id == row.id
        post_text == row.text
        called == call_vlm(c.vlm)
    IN  IF called.raised /\ ~handler_catches(called.exc) THEN called
        ELSE LET vlm_output == IF called.raised THEN ErrorSentinel ELSE called.value
                 keywords == summarize_text(post_text, vlm_output, c.text)
                 scores == classify_to_scores(keywords, c.draws)
                 binary_tags == apply_policy(thresholds, scores)
             IN  Return(Merge(Merge(Merge([post_id |-> post_id, post_text |-> post_text,
                                           keywords |-> keywords],
                                          vlm_output), scores), binary_tags))

\* ------------------------------------------------------------------ feature_store.py

\* Python's None.
None == [NoneType |-> TRUE]

\* str(post_id)
Str(post_id) ==
    CASE post_id = "int:1" -> "1"
      [] post_id = "int:2" -> "2"
      [] post_id = "str:1" -> "1"
      [] OTHER -> post_id

\* c.startswith("Is_"): the columns apply_policy names; no other column of a
\* Feature Row begins with a capital I.
StartsWithIs(c) == c \in {TagName(k) : k \in Categories \cup {"Misinformation"}}

\* feature_cols = [c for c in df.columns if c.startswith("Is_")]
feature_cols(columns) == {c \in columns : StartsWithIs(c)}

\* The file before the first write, and after os.remove.
NoFile == [exists |-> FALSE, lines |-> <<>>]

\* The header line to_csv writes: the frame's columns (none for an empty frame).
HeaderLine(df) == [header |-> IF df = <<>> THEN {} ELSE DOMAIN df[1]]
RowLines(df) == [j \in 1..Len(df) |-> [row |-> df[j]]]

\* write_offline always opening the file with mode='w' (a mutant).
write_offline_truncating(file, df) ==
    [exists |-> TRUE, lines |-> <<HeaderLine(df)>> \o RowLines(df)]

\* FeatureStore.write_offline: df a sequence of rows.
write_offline(file, df) ==
    IF file.exists
    THEN [exists |-> TRUE, lines |-> file.lines \o RowLines(df)]
    ELSE [exists |-> TRUE, lines |-> <<HeaderLine(df)>> \o RowLines(df)]

\* A line with no cell: the header to_csv writes for a frame without columns.
BlankLine(line) == "header" \in DOMAIN line /\ line.header = {}

\* The lines pd.read_csv parses (skip_blank_lines=True).
NonBlank(lines) == SelectSeq(lines, LAMBDA line : ~BlankLine(line))

\* pd.read_csv raises EmptyDataError when no line is left to name the columns.
Parses(file) == NonBlank(file.lines) # <<>>

\* A data line read where the header was blank names the columns by its cells:
\* none of them is a column of the frame that was written.
Misnamed(row) == [unnamed |-> row]

\* The rows pd.read_csv gives back: the lines after the first parsed line, which
\* names the columns. Of their cells train_model reads the Is_ columns, 0 or 1,
\* which the CSV text keeps as they are.
read_csv(file) ==
    LET parsed == NonBlank(file.lines)
    IN  [j \in 1..(Len(parsed) - 1) |->
            IF "header" \in DOMAIN parsed[1] THEN parsed[j + 1].row
            ELSE Misnamed(parsed[j + 1].row)]

\* row[feature_cols].to_dict()
TagVector(row) == [c \in feature_cols(DOMAIN row) |-> row[c]]

\* write_online keeping the first entry of a key (a mutant: setdefault).
RECURSIVE write_online_first_wins(_, _)
write_online_first_wins(store, df) ==
    IF df = <<>> THEN store
    ELSE LET post_id == Str(df[1].post_id)
         IN  write_online_first_wins(
                IF post_id \in DOMAIN store THEN store
                ELSE [k \in DOMAIN store \cup {post_id} |->
                        IF k = post_id THEN TagVector(df[1]) ELSE store[k]],
                Tail(df))

\* FeatureStore.write_online: the loop over df.iterrows().
RECURSIVE write_online(_, _)
write_online(store, df) ==
    IF df = <<>> THEN store
    ELSE LET post_id == Str(df[1].post_id)
             features == TagVector(df[1])
         IN  write_online([k \in DOMAIN store \cup {post_id} |->
                             IF k = post_id THEN features ELSE store[k]],
                          Tail(df))

\* FeatureStore.get_online_features
get_online_features(store, post_id) == Get(store, Str(post_id), None)

\* ------------------------------------------------------------------ serving_engine.py

\* The synthetic label of one row: noisy is `not (random.random() > 0.1)`.
Label(row, noisy) ==
    IF Get(row, "Is_Harmful_Content", 0) = 1
    THEN (IF ~noisy THEN 0 ELSE 1)
    ELSE (IF ~noisy THEN 1 ELSE 0)

\* LogisticRegression.fit(X, y) raises unless y holds two classes (which also
\* needs at least one row) and X has a column.
FitSucceeds(X, y) == Cardinality(Range(y)) >= 2 /\ \A j \in 1..Len(X) : DOMAIN X[j] # {}

\* The y train_model builds from the log: noise[j] is the noise drawn for row j.
TrainLabels(file, noise) ==
    LET df == read_csv(file) IN [j \in 1..Len(df) |-> Label(df[j], noise[j])]

\* X = df[feature_cols]
TrainMatrix(file) ==
    LET df == read_csv(file) IN [j \in 1..Len(df) |-> TagVector(df[j])]

\* ServingEngine.train_model: the value of self.model afterwards. m is self.model
\* before, noise[j] the label noise drawn for row j.
train_model(m, file, noise) ==
    IF ~file.exists THEN m
    ELSE IF ~Parses(file) THEN m     \* pd.read_csv raises before self.model is assigned
    ELSE \* self.model = LogisticRegression() comes before the try
         IF FitSucceeds(TrainMatrix(file), TrainLabels(file, noise))
         THEN "fitted" ELSE "unfitted"

\* ServingEngine.train_model: what the call comes to. Only pd.read_csv is
\* outside the try.
train_model_outcome(file) ==
    IF file.exists /\ ~Parses(file) THEN Raise("EmptyDataError") ELSE Return(None)

\* bool(x) of a dict or None
Truthy(x) == x # None /\ DOMAIN x # {}

\* round(prob, 4): to the nearest 0.0001, ties to even.
Round4(prob) ==
    LET q == prob \div 10
        r == prob % 10
    IN  IF r < 5 THEN 10 * q
        ELSE IF r > 5 THEN 10 * (q + 1)
        ELSE IF q % 2 = 0 THEN 10 * q ELSE 10 * (q + 1)

\* The decision with <= in place of < (a mutant).
Decide_inclusive(prob) ==
    IF prob <= 20000 THEN "BLOCK" ELSE IF prob <= 50000 THEN "DEMOTE" ELSE "DISPLAY"

\* serve_prediction, step 3: the action of a probability.
Decide(prob) ==
    IF prob < 20000 THEN "BLOCK" ELSE IF prob < 50000 THEN "DEMOTE" ELSE "DISPLAY"

\* The values predict_proba(...)[0][1] of a fitted classifier may take.
Probabilities == {0, 19994, 19995, 19999, 20000, 20001, 49999, 50000, One}

\* serve_prediction looking at the model before the lookup (a mutant).
serve_prediction_model_first(store, m, post_id, proba) ==
    LET features == get_online_features(store, post_id)
    IN  IF m = "unfitted" THEN Raise("NotFittedError")
        ELSE IF ~Truthy(features) THEN Return([post_id |-> post_id, action |-> "ERROR_NOT_FOUND"])
        ELSE LET prob == IF m = "fitted" THEN proba
                         ELSE IF Get(features, "Is_Harmful_Content", 0) = 1 THEN 0 ELSE One
             IN  Return([post_id |-> post_id, score |-> Round4(prob), action |-> Decide(prob)])

\* ServingEngine.serve_prediction: m is self.model, proba what a fitted
\* classifier's predict_proba gives for the features.
serve_prediction(store, m, post_id, proba) ==
    LET features == get_online_features(store, post_id)
    IN  IF ~Truthy(features) THEN Return([post_id |-> post_id, action |-> "ERROR_NOT_FOUND"])
        ELSE IF m = "unfitted" THEN Raise("NotFittedError")   \* `if self.model:` holds, predict_proba raises
        ELSE LET prob == IF m = "fitted" THEN proba
                         ELSE IF Get(features, "Is_Harmful_Content", 0) = 1 THEN 0 ELSE One
             IN  Return([post_id |-> post_id, score |-> Round4(prob), action |-> Decide(prob)])

\* ------------------------------------------------------------------ the rows the stores see

\* The columns of a Feature Row the store and the engine read (post_id, the Is_
\* columns) and one they skip; the rest never reaches any later step.
StoreColumns == {"post_id", "is_harmful"} \cup {TagName(c) : c \in Categories}

Project(row) == [c \in StoreColumns |-> row[c]]

VlmDown == [kind |-> "network_error"]
TextDown == [kind |-> "error"]
LowDraws == [base |-> 0, jitter |-> -10000, political |-> 0, spam |-> 0, copyright |-> 0]
HighDraws == [base |-> 75000, jitter |-> 10000, political |-> 75000, spam |-> 99990,
              copyright |-> 99990]

PostOf(id) == CHOOSE p \in Posts : p.id = id

\* The row process_batch makes of a post when both model calls fail.
RowOf(id, draws) ==
    Project(process_row(POLICY_THRESHOLDS, PostOf(id),
                        [vlm |-> VlmDown, text |-> TextDown, draws |-> draws]).value)

\* Rows of process_batch that the store runs write.
SampleRows ==
    {RowOf("int:1", LowDraws), RowOf("int:1", HighDraws),
     RowOf("int:2", HighDraws), RowOf("str:1", HighDraws)}

\* Rows of process_batch that the engine runs write: a harmless and a harmful post.
EngineRows == {RowOf("int:1", LowDraws), RowOf("int:2", HighDraws)}

Frames == SeqsOf(SampleRows, 1, MaxBatch)
EngineFrames == SeqsOf(EngineRows, 1, MaxBatch)

\* The frames the engine runs log: process_batch of no post gives the empty one.
EngineLogFrames == SeqsOf(EngineRows, 0, MaxBatch)

\* The ids a caller may ask for: those of the posts and one of no post.
AskedIds == PostIds \cup {"str:nonexistent"}

LogRows(file) == IF file.exists THEN Len(file.lines) - 1 ELSE 0

scoreIdle == <<policy_thresholds>>
ghostVars == <<written, upserts>>
fitVars == <<model, last_fit>>
pipeVars == <<pc, train_df, train_features, test_df, test_features, served>>

\* The state after FeatureFactory(...), FeatureStore() and ServingEngine(store),
\* with no offline file on disk; ret is left to each specification.
InitObjects ==
    /\ offline_file = NoFile
    /\ online_store = <<>>
    /\ model = "none"
    /\ written = <<>>
    /\ upserts = <<>>
    /\ policy_thresholds = POLICY_THRESHOLDS
    /\ pc = "idle"
    /\ train_df = <<>>
    /\ train_features = <<>>
    /\ test_df = <<>>
    /\ test_features = <<>>
    /\ served = <<>>
    /\ last_fit = "never"

InitCommon == InitObjects /\ ret = [op |-> "init"]

\* ------------------------------------------------------------------ Spec: the engine over the store

WriteOffline(df) ==
    /\ LogRows(offline_file) + Len(df) <= MaxLog
    /\ offline_file' = write_offline(offline_file, df)
    /\ ret' = [op |-> "write_offline", out |-> Return(None)]
    /\ UNCHANGED <<online_store, fitVars, ghostVars, scoreIdle, pipeVars>>

WriteOnline(df) ==
    /\ online_store' = write_online(online_store, df)
    /\ ret' = [op |-> "write_online", out |-> Return(None)]
    /\ UNCHANGED <<offline_file, fitVars, ghostVars, scoreIdle, pipeVars>>

\* How the fit of a train_model call ends: "failed", "ok", or last (no fit: no file).
FitOutcome(file, noise, last) ==
    IF ~file.exists \/ ~Parses(file) THEN last
    ELSE IF FitSucceeds(TrainMatrix(file), TrainLabels(file, noise)) THEN "ok" ELSE "failed"

TrainModel ==
    /\ \E noise \in [1..LogRows(offline_file) -> BOOLEAN] :
          /\ model' = train_model(model, offline_file, noise)
          /\ last_fit' = FitOutcome(offline_file, noise, last_fit)
    /\ ret' = [op |-> "train_model", exists |-> offline_file.exists,
               rows |-> LogRows(offline_file),
               out |-> train_model_outcome(offline_file)]
    /\ UNCHANGED <<offline_file, online_store, ghostVars, scoreIdle, pipeVars>>

\* The record of one serve_prediction call: its argument, the probability the
\* classifier gave when it was asked, and the outcome.
ServeRecord(store, m, post_id, proba) ==
    LET out == serve_prediction(store, m, post_id, proba)
        asked == m = "fitted" /\ Truthy(get_online_features(store, post_id))
    IN  IF asked
        THEN [op |-> "serve_prediction", post_id |-> post_id, proba |-> proba, out |-> out]
        ELSE [op |-> "serve_prediction", post_id |-> post_id, out |-> out]

ServePrediction(post_id) ==
    /\ \E proba \in Probabilities : ret' = ServeRecord(online_store, model, post_id, proba)
    /\ UNCHANGED <<offline_file, online_store, fitVars, ghostVars, scoreIdle, pipeVars>>

Next ==
    \/ \E df \in EngineLogFrames : WriteOffline(df)
    \/ \E df \in EngineFrames : WriteOnline(df)
    \/ TrainModel
    \/ \E post_id \in AskedIds : ServePrediction(post_id)

Init == InitCommon

Spec == Init /\ [][Next]_vars

\* ---- claims checked under Spec

Present(post_id) == Str(post_id) \in DOMAIN online_store

\* The probability of the rule-based fallback for the stored features.
FallbackProb(post_id) ==
    IF online_store[Str(post_id)]["Is_Harmful_Content"] = 1 THEN 0 ELSE One

Actions == {"BLOCK", "DEMOTE", "DISPLAY"}

\* C2: when the last fit of train_model failed, a serve_prediction for a post in
\* the Online Index does not raise and returns the rule-based fallback: score 0.0
\* when Is_Harmful_Content is 1 and 1.0 otherwise, with the action of that score.
C2_FitFailureFallsBack ==
    (ret.op = "serve_prediction" /\ last_fit = "failed" /\ Present(ret.post_id))
        => /\ ~ret.out.raised
           /\ ret.out.value = [post_id |-> ret.post_id,
                               score |-> FallbackProb(ret.post_id),
                               action |-> Decide(FallbackProb(ret.post_id))]

\* C3: serve_prediction for a post_id that has an entry in the Online Index
\* returns, without raising, a score and an action among BLOCK, DEMOTE, DISPLAY.
C3_PresentPostGetsAction ==
    (ret.op = "serve_prediction" /\ Present(ret.post_id))
        => /\ ~ret.out.raised
           /\ "score" \in DOMAIN ret.out.value
           /\ ret.out.value.action \in Actions

\* C4: a serve_prediction step for a post_id whose key is not in the Online Index
\* (nothing was ever upserted under it) finds get_online_features giving None,
\* returns {post_id, action: ERROR_NOT_FOUND} with no score, does not raise, and
\* leaves the Online Index and the model as they were, whatever the model is.
C4_LookupMissIsValue ==
    [][(ret'.op = "serve_prediction" /\ ~Present(ret'.post_id))
        => /\ get_online_features(online_store, ret'.post_id) = None
           /\ ret'.out = Return([post_id |-> ret'.post_id, action |-> "ERROR_NOT_FOUND"])
           /\ UNCHANGED <<online_store, model>>]_vars

C4_Witness ==
    /\ ret.op = "serve_prediction"
    /\ ~Present(ret.post_id)
    /\ online_store # <<>>
    /\ model = "unfitted"
    /\ ~ret.out.raised
    /\ ret.out.value.action = "ERROR_NOT_FOUND"

\* The probability a returned decision was made from.
ProbOf(r) == IF "proba" \in DOMAIN r THEN r.proba ELSE FallbackProb(r.post_id)

\* C5: every decision that carries a score has action BLOCK iff p < 0.2, DEMOTE
\* iff 0.2 <= p < 0.5 and DISPLAY iff p >= 0.5, p being the probability before
\* rounding; so exactly one of the three is chosen.
C5_ProbabilityToAction ==
    (ret.op = "serve_prediction" /\ ~ret.out.raised /\ "score" \in DOMAIN ret.out.value)
        => LET p == ProbOf(ret)
               a == ret.out.value.action
           IN  /\ a \in Actions
               /\ (a = "BLOCK") <=> (p < 20000)
               /\ (a = "DEMOTE") <=> (20000 <= p /\ p < 50000)
               /\ (a = "DISPLAY") <=> (p >= 50000)

C5_Witness ==
    /\ ret.op = "serve_prediction"
    /\ "proba" \in DOMAIN ret
    /\ ret.proba = 20000
    /\ ret.out.value.action = "DEMOTE"

\* C11: a train_model call made when the Offline Log is missing or holds no row
\* returns None without raising and leaves the engine with no model, so that
\* serve_prediction takes the rule-based fallback.
C11_TrainingPrecondition ==
    (ret.op = "train_model" /\ ret.rows = 0)
        => /\ ret.out = Return(None)
           /\ model = "none"

\* ------------------------------------------------------------------ SpecOffline: the offline log

RECURSIVE Flatten(_)
Flatten(batches) == IF batches = <<>> THEN <<>> ELSE Head(batches) \o Flatten(Tail(batches))

\* The frames handed to write_offline: process_batch of no post gives the empty one.
LogFrames == SeqsOf(SampleRows, 0, MaxBatch)

LogWrite(df) ==
    /\ Len(written) < MaxWritten
    /\ Len(Flatten(written)) + Len(df) <= MaxWritten
    /\ offline_file' = write_offline(offline_file, df)
    /\ written' = Append(written, df)
    /\ ret' = [op |-> "write_offline", out |-> Return(None)]
    /\ UNCHANGED <<online_store, upserts, fitVars, scoreIdle, pipeVars>>

\* main.py:13-15, the reset: os.remove when the file exists.
remove_offline(file) == IF file.exists THEN NoFile ELSE file

LogReset ==
    /\ offline_file' = remove_offline(offline_file)
    /\ written' = <<>>
    /\ ret' = [op |-> "reset", out |-> Return(None)]
    /\ UNCHANGED <<online_store, upserts, fitVars, scoreIdle, pipeVars>>

NextOffline ==
    \/ \E df \in LogFrames : LogWrite(df)
    \/ LogReset

SpecOffline == InitCommon /\ [][NextOffline]_vars

\* C10: between resets the log is exactly one header followed by the rows of
\* every batch written since the reset, in call order and batch order; with no
\* write since the reset there is no file.
C10_AppendOnly ==
    IF written = <<>> THEN offline_file = NoFile
    ELSE /\ offline_file.exists
         /\ offline_file.lines = <<HeaderLine(written[1])>> \o RowLines(Flatten(written))
         /\ Cardinality({j \in 1..Len(offline_file.lines) :
                            "header" \in DOMAIN offline_file.lines[j]}) = 1

C10_Witness ==
    /\ Len(written) >= 2
    /\ Len(written[1]) >= 2
    /\ written[1][1] # written[1][2]
    /\ written[1] # written[2]
    /\ offline_file.exists

\* ------------------------------------------------------------------ SpecOnline: the online index

IndexWrite(df) ==
    /\ Len(upserts) + Len(df) <= MaxUpserts
    /\ online_store' = write_online(online_store, df)
    /\ upserts' = upserts \o df
    /\ ret' = [op |-> "write_online", out |-> Return(None)]
    /\ UNCHANGED <<offline_file, written, fitVars, scoreIdle, pipeVars>>

IndexGet(post_id) ==
    /\ ret' = [op |-> "get_online_features", post_id |-> post_id,
               out |-> Return(get_online_features(online_store, post_id))]
    /\ UNCHANGED <<offline_file, online_store, ghostVars, fitVars, scoreIdle, pipeVars>>

NextOnline ==
    \/ \E df \in Frames : IndexWrite(df)
    \/ \E post_id \in AskedIds : IndexGet(post_id)

SpecOnline == InitCommon /\ [][NextOnline]_vars

\* The Is_ entries of a row, named without feature_cols.
IsEntries(row) == [c \in {TagName(k) : k \in Categories} |-> row[c]]

\* The positions in the upsert history that wrote under key k.
UpsertsOf(k) == {j \in 1..Len(upserts) : Str(upserts[j].post_id) = k}

Max(S) == CHOOSE x \in S : \A y \in S : y <= x

\* What a lookup of key k must give after the upsert history.
LastWritten(k) ==
    IF UpsertsOf(k) = {} THEN None ELSE IsEntries(upserts[Max(UpsertsOf(k))])

\* C6: after any sequence of write_online calls, the entry of every key is exactly
\* the Is_ entries of the row most recently upserted under that key (keys are
\* str(post_id)), unmerged and untouched by upserts under other keys, and
\* get_online_features returns that entry.
C6_LastWriteWins ==
    /\ \A post_id \in AskedIds :
          get_online_features(online_store, post_id) = LastWritten(Str(post_id))
    /\ DOMAIN online_store = {Str(upserts[j].post_id) : j \in 1..Len(upserts)}
    /\ ret.op = "get_online_features" => ret.out.value = LastWritten(Str(ret.post_id))

C6_Witness ==
    /\ ret.op = "get_online_features"
    /\ ret.post_id = "int:1"
    /\ Cardinality(UpsertsOf("1")) >= 2
    /\ UpsertsOf("2") # {}
    /\ IsEntries(upserts[1]) # ret.out.value
    /\ Str(upserts[1].post_id) = "1"

\* ------------------------------------------------------------------ SpecScores: scores and tags

\* The keyword lists summarize_text gives for the posts.
KeywordLists ==
    {summarize_text(p.text, ErrorSentinel, t) : p \in Posts, t \in TextOutcomes}

\* Score vectors handed to apply_policy: those classify_to_scores gives for the
\* sample draws, vectors on the thresholds, and vectors naming a category that
\* has no configured threshold.
ScoreVectors ==
    {classify_to_scores(k, d) : k \in KeywordLists, d \in BatchDraws}
    \cup {[Harmful_Content |-> h, Political_Content |-> 70000, Spam |-> 89999,
           Copyright_Infringement |-> 85001] : h \in {79999, 80000}}
    \cup {[Harmful_Content |-> 80000, Misinformation |-> m] : m \in {49999, 50000, 50001}}

\* A call about to be made: the function and its arguments.
ScoreCalls ==
    {[op |-> "call", fn |-> "classify_to_scores", keywords |-> k, draws |-> d] :
        k \in KeywordLists, d \in Draws}
    \cup {[op |-> "call", fn |-> "apply_policy", scores |-> v] : v \in ScoreVectors}

InitScores == InitObjects /\ ret \in ScoreCalls

ClassifyToScores ==
    /\ ret.op = "call" /\ ret.fn = "classify_to_scores"
    /\ ret' = [op |-> "classify_to_scores", keywords |-> ret.keywords,
               out |-> Return(classify_to_scores(ret.keywords, ret.draws))]
    /\ UNCHANGED <<offline_file, online_store, ghostVars, fitVars, scoreIdle, pipeVars>>

ApplyPolicy ==
    /\ ret.op = "call" /\ ret.fn = "apply_policy"
    /\ ret' = [op |-> "apply_policy", scores |-> ret.scores,
               out |-> Return(apply_policy(policy_thresholds, ret.scores))]
    /\ UNCHANGED <<offline_file, online_store, ghostVars, fitVars, scoreIdle, pipeVars>>

NextScores == ClassifyToScores \/ ApplyPolicy

SpecScores == InitScores /\ [][NextScores]_vars

\* C7: each of the four scores classify_to_scores returns lies in [0, 1].
C7_ScoresInUnitInterval ==
    ret.op = "classify_to_scores"
        => \A c \in Categories : 0 <= ret.out.value[c] /\ ret.out.value[c] <= One

\* The threshold the Tag Policy names for a category.
PolicyThreshold(c) ==
    IF c \in DOMAIN POLICY_THRESHOLDS THEN POLICY_THRESHOLDS[c] ELSE 50000

\* C8: apply_policy gives one entry Is_c for every category c of the score
\* vector and no other entry; the entry is 1 iff score[c] >= threshold[c], 0.5
\* standing in for a category without a threshold, and 0 otherwise; the
\* thresholds are as configured before and after.
C8_TagPolicy ==
    /\ policy_thresholds = POLICY_THRESHOLDS
    /\ ret.op = "apply_policy" =>
          /\ DOMAIN ret.out.value = {TagName(c) : c \in DOMAIN ret.scores}
          /\ Cardinality(DOMAIN ret.out.value) = Cardinality(DOMAIN ret.scores)
          /\ \A c \in DOMAIN ret.scores :
                /\ ret.out.value[TagName(c)] \in {0, 1}
                /\ (ret.out.value[TagName(c)] = 1) <=> (ret.scores[c] >= PolicyThreshold(c))

C8_Witness ==
    /\ ret.op = "apply_policy"
    /\ "Misinformation" \in DOMAIN ret.scores
    /\ ret.scores["Misinformation"] = 50000
    /\ ret.out.value["Is_Misinformation"] = 1
    /\ ret.scores["Harmful_Content"] = 80000
    /\ ret.out.value["Is_Harmful_Content"] = 1

\* ------------------------------------------------------------------ SpecBatch: process_batch

\* A process_batch call in flight: its frame, the rows in results so far, which
\* VLM calls failed so far, and whether it is running, has returned or has raised.
InitBatch ==
    /\ InitObjects
    /\ \E df \in SeqsOf(Posts, 0, MaxBatch) :
          ret = [op |-> "process_batch", df |-> df, results |-> <<>>,
                 vlm_failed |-> <<>>, state |-> "running"]

\* One iteration of the loop over df.iterrows().
BatchRow(c) ==
    /\ ret.op = "process_batch" /\ ret.state = "running"
    /\ Len(ret.results) < Len(ret.df)
    /\ LET r == process_row(policy_thresholds, ret.df[Len(ret.results) + 1], c)
       IN  ret' = IF r.raised
                  THEN [ret EXCEPT !.state = "raised"]
                  ELSE [ret EXCEPT !.results = Append(@, r.value),
                                   !.vlm_failed = Append(@, VlmFailed(c.vlm))]
    /\ UNCHANGED <<offline_file, online_store, ghostVars, fitVars, scoreIdle, pipeVars>>

\* return pd.DataFrame(results)
BatchReturn ==
    /\ ret.op = "process_batch" /\ ret.state = "running"
    /\ Len(ret.results) = Len(ret.df)
    /\ ret' = [ret EXCEPT !.state = "returned"]
    /\ UNCHANGED <<offline_file, online_store, ghostVars, fitVars, scoreIdle, pipeVars>>

NextBatch == (\E c \in Choices : BatchRow(c)) \/ BatchReturn

SpecBatch == InitBatch /\ [][NextBatch]_vars

TrainPosts == {PostOf("int:1"), PostOf("int:2")}
TestPosts == {PostOf("int:2"), PostOf("str:1")}

\* What happens to a post in the pipeline runs: the draws differ, both model calls fail.
PipelineChoices == {[vlm |-> VlmDown, text |-> TextDown, draws |-> d] : d \in BatchDraws}

\* What a fitted classifier answers in the pipeline runs.
PipelineProbabilities == {19999, 50000}

\* A log a previous run left on disk.
OldFile == write_offline(NoFile, <<RowOf("str:1", LowDraws)>>)

InitPipeline ==
    /\ offline_file \in {NoFile, OldFile}
    /\ online_store = <<>>
    /\ model = "none"
    /\ ret = [op |-> "init"]
    /\ written = <<>>
    /\ upserts = <<>>
    /\ policy_thresholds = POLICY_THRESHOLDS
    /\ pc = "start"
    /\ train_df = <<>>
    /\ train_features = <<>>
    /\ test_df = <<>>
    /\ test_features = <<>>
    /\ served = <<>>
    /\ last_fit = "never"

storeVars == <<offline_file, online_store>>
frameVars == <<train_df, train_features, test_df, test_features>>

\* main.py:9-15: the components are built and the old offline file is removed.
PipeReset ==
    /\ pc = "start"
    /\ offline_file' = remove_offline(offline_file)
    /\ pc' = "ingest_train"
    /\ UNCHANGED <<online_store, fitVars, ret, ghostVars, scoreIdle, frameVars, served>>

\* main.py:22-24 and 36-38: ingest the training file; return when it is empty.
PipeIngestTrain ==
    /\ pc = "ingest_train"
    /\ \E df \in SeqsOf(TrainPosts, 0, MaxIngest) :
          /\ train_df' = df
          /\ pc' = IF df = <<>> THEN "done" ELSE "process_train"
    /\ UNCHANGED <<storeVars, fitVars, ret, ghostVars, scoreIdle, train_features,
                   test_df, test_features, served>>

\* main.py:26: one iteration of process_batch(train_df).
PipeProcessTrain(c) ==
    /\ pc = "process_train"
    /\ LET r == process_row(policy_thresholds, train_df[Len(train_features) + 1], c)
       IN  IF r.raised
           THEN pc' = "raised" /\ UNCHANGED train_features
           ELSE /\ train_features' = Append(train_features, Project(r.value))
                /\ pc' = IF Len(train_features) + 1 = Len(train_df)
                         THEN "write_offline" ELSE pc
    /\ UNCHANGED <<storeVars, fitVars, ret, ghostVars, scoreIdle, train_df,
                   test_df, test_features, served>>

\* main.py:30
PipeWriteOffline ==
    /\ pc = "write_offline"
    /\ offline_file' = write_offline(offline_file, train_features)
    /\ written' = Append(written, train_features)
    /\ ret' = [op |-> "write_offline", out |-> Return(None)]
    /\ pc' = "train"
    /\ UNCHANGED <<online_store, fitVars, upserts, scoreIdle, frameVars, served>>

\* main.py:34-35: engine = ServingEngine(store); engine.train_model()
PipeTrain ==
    /\ pc = "train"
    /\ \E noise \in [1..LogRows(offline_file) -> BOOLEAN] :
          /\ model' = train_model("none", offline_file, noise)
          /\ last_fit' = FitOutcome(offline_file, noise, "never")
    /\ ret' = [op |-> "train_model", exists |-> offline_file.exists,
               rows |-> LogRows(offline_file),
               out |-> train_model_outcome(offline_file)]
    /\ pc' = IF train_model_outcome(offline_file).raised THEN "raised" ELSE "ingest_test"
    /\ UNCHANGED <<storeVars, ghostVars, scoreIdle, frameVars, served>>

\* main.py:46-48: ingest the test file; nothing more happens when it is empty.
PipeIngestTest ==
    /\ pc = "ingest_test"
    /\ \E df \in SeqsOf(TestPosts, 0, MaxIngest) :
          /\ test_df' = df
          /\ pc' = IF df = <<>> THEN "done" ELSE "process_test"
    /\ UNCHANGED <<storeVars, fitVars, ret, ghostVars, scoreIdle, train_df,
                   train_features, test_features, served>>

\* main.py:52: one iteration of process_batch(test_df).
PipeProcessTest(c) ==
    /\ pc = "process_test"
    /\ LET r == process_row(policy_thresholds, test_df[Len(test_features) + 1], c)
       IN  IF r.raised
           THEN pc' = "raised" /\ UNCHANGED test_features
           ELSE /\ test_features' = Append(test_features, Project(r.value))
                /\ pc' = IF Len(test_features) + 1 = Len(test_df)
                         THEN "write_online" ELSE pc
    /\ UNCHANGED <<storeVars, fitVars, ret, ghostVars, scoreIdle, train_df,
                   train_features, test_df, served>>

\* run_pipeline going on to the serving loop without the write_online call (a mutant).
PipeWriteOnline_skipped ==
    /\ pc = "write_online"
    /\ pc' = "serve"
    /\ UNCHANGED <<storeVars, fitVars, ret, ghostVars, scoreIdle, frameVars, served>>

\* main.py:56
PipeWriteOnline ==
    /\ pc = "write_online"
    /\ online_store' = write_online(online_store, test_features)
    /\ upserts' = upserts \o test_features
    /\ ret' = [op |-> "write_online", out |-> Return(None)]
    /\ pc' = "serve"
    /\ UNCHANGED <<offline_file, fitVars, written, scoreIdle, frameVars, served>>

\* main.py:61-65: one iteration of the loop over sample_ids; an exception of
\* serve_prediction leaves run_pipeline.
PipeServe ==
    /\ pc = "serve"
    /\ LET pid == test_features[Len(served) + 1].post_id
       IN  \E proba \in PipelineProbabilities :
              LET out == serve_prediction(online_store, model, pid, proba)
              IN  /\ ret' = ServeRecord(online_store, model, pid, proba)
                  /\ IF out.raised
                     THEN pc' = "raised" /\ UNCHANGED served
                     ELSE /\ served' = Append(served, out.value)
                          /\ pc' = IF Len(served) + 1 = Len(test_features) THEN "done" ELSE pc
    /\ UNCHANGED <<storeVars, fitVars, ghostVars, scoreIdle, frameVars>>

NextPipeline ==
    \/ PipeReset
    \/ PipeIngestTrain
    \/ \E c \in PipelineChoices : PipeProcessTrain(c)
    \/ PipeWriteOffline
    \/ PipeTrain
    \/ PipeIngestTest
    \/ \E c \in PipelineChoices : PipeProcessTest(c)
    \/ PipeWriteOnline
    \/ PipeServe

SpecPipeline == InitPipeline /\ [][NextPipeline]_vars

\* The keys under which the Offline Log holds a row.
LoggedKeys == {Str(read_csv(offline_file)[j].post_id) : j \in 1..LogRows(offline_file)}

\* C1: in every state of a pipeline run, every post that has an entry in the
\* Online Index has a row in the Offline Log.
C1_OfflineBeforeOnline == DOMAIN online_store \subseteq LoggedKeys

\* C12: in a pipeline run, (a) the step that calls train_model finds the whole
\* training batch written to the Offline Log, (b) every step that calls
\* serve_prediction for a post_id finds that write_online has upserted the post
\* and the Online Index holds its Tag Vector, so that no serve of the run
\* returns ERROR_NOT_FOUND, and (c) a run whose training set is empty ends at
\* once, with no write to the Online Index and no serve.
C12_PipelineOrdering ==
    [][/\ (ret.op # "train_model" /\ ret'.op = "train_model")
            => /\ train_df # <<>>
               /\ Len(train_features) = Len(train_df)
               /\ written = <<train_features>>
               /\ offline_file.exists
               /\ offline_file.lines = <<HeaderLine(train_features)>> \o RowLines(train_features)
       /\ ret'.op = "serve_prediction"
            => /\ UpsertsOf(Str(ret'.post_id)) # {}
               /\ get_online_features(online_store, ret'.post_id) = LastWritten(Str(ret'.post_id))
               /\ ~ret'.out.raised => ret'.out.value.action # "ERROR_NOT_FOUND"
       /\ \A j \in 1..Len(served') : served'[j].action # "ERROR_NOT_FOUND"
       /\ (train_df' = <<>> /\ pc' \notin {"start", "ingest_train"})
            => /\ pc' = "done"
               /\ upserts' = <<>>
               /\ online_store' = <<>>
               /\ served' = <<>>
               /\ ret'.op = "init"
      ]_vars

C12_Witness ==
    /\ pc = "done"
    /\ ret.op = "serve_prediction"
    /\ last_fit = "ok"
    /\ written = <<train_features>>
    /\ Len(train_features) = 2
    /\ Len(served) = 2
    /\ upserts = test_features
    /\ served[1].post_id # served[2].post_id

====
